---- MODULE Spec2Model ----
(***************************************************************************)
(* Exercita365 API: user registration and login, the JWT auth middleware,  *)
(* and the location resource (create / list / get / update / delete /     *)
(* maps link), as a state machine over the Users and Locations tables.    *)
(*                                                                         *)
(* Every route handler is an async function: it runs atomically between    *)
(* two awaits, and other requests may run at each await.  A request is a   *)
(* slot of `req`; one action models one stretch of a handler between       *)
(* awaits (the middleware chain and the code up to the first store call,   *)
(* then one action per awaited store call with all the synchronous code    *)
(* that follows it).                                                       *)
(***************************************************************************)
EXTENDS Integers, Sequences, FiniteSets, TLC

(***************************************************************************)
(* Bounds of the model                                                     *)
(***************************************************************************)
MaxRequests == 2
MaxUsers == 2
MaxLocations == 2
MaxTokens == 3
MaxTime == 5400
TickStep == 1800

(***************************************************************************)
(* Program constants                                                       *)
(***************************************************************************)
CpfLength == 11
MinRegisterPassword == 6
MinLoginPassword == 8
ExpiresIn == 3600

JwtSecret == "JWT_SECRET"

Slots == 1..MaxRequests
UserIds == 1..MaxUsers
LocationIds == 1..MaxLocations

(***************************************************************************)
(* Strings are sequences of characters.                                    *)
(***************************************************************************)
Rep(c, n) == [i \in 1..n |-> c]

RECURSIVE TrimLeft(_)
TrimLeft(s) == IF s # <<>> /\ Head(s) = " " THEN TrimLeft(Tail(s)) ELSE s

RECURSIVE TrimRight(_)
TrimRight(s) ==
  IF s # <<>> /\ s[Len(s)] = " " THEN TrimRight(SubSeq(s, 1, Len(s) - 1)) ELSE s

\* validator.js trim(): whitespace removed at both ends
Trim(s) == TrimRight(TrimLeft(s))

\* validator.js escape(): HTML metacharacters replaced by their entities
\* (an entity is kept as one element of the sequence)
EscapeChar(c) ==
  CASE c = "<" -> "&lt;"
    [] c = ">" -> "&gt;"
    [] c = "&" -> "&amp;"
    [] OTHER -> c

Escape(s) == [i \in DOMAIN s |-> EscapeChar(s[i])]

\* the sanitizers of a location text field, in chain order: .trim().escape()
Sanitize(s) == Escape(Trim(s))

LowerChar(c) ==
  CASE c = "A" -> "a"
    [] c = "B" -> "b"
    [] OTHER -> c

\* validator.js normalizeEmail(): the address lowercased (all_lowercase)
NormalizeEmail(e) == [i \in DOMAIN e |-> LowerChar(e[i])]

\* validator.js isEmail(): one "@", a non-empty local part and domain
IsEmail(e) ==
  /\ Cardinality({i \in DOMAIN e : e[i] = "@"}) = 1
  /\ e[1] # "@"
  /\ e[Len(e)] # "@"

\* validator.js isISO8601() (not strict): month 01-12 and day 01-31 by shape,
\* the day is not checked against the month
IsISO8601(d) ==
  /\ Len(d) = 3
  /\ d[2] \in 1..12
  /\ d[3] \in 1..31

(***************************************************************************)
(* bcrypt                                                                  *)
(***************************************************************************)
BcryptHash(password) == <<"$2b$08$", password>>

\* bcrypt.compare(password, user.password)
BcryptCompare(password, hash) == hash[2] = password

(***************************************************************************)
(* jsonwebtoken                                                            *)
(***************************************************************************)
\* jwt.sign({ id }, secret [, { expiresIn }]) at clock t
JwtSign(id, secret, hasExp, t) ==
  [id |-> id, iat |-> t, hasExp |-> hasExp,
   exp |-> IF hasExp THEN t + ExpiresIn ELSE 0, key |-> secret]

\* (variant: the signature is not checked)
JwtVerifyOkNoSignature(token, secret, t) ==
  token.hasExp => t < token.exp

\* jwt.verify(token, secret) at clock t: throws unless the signature is the
\* secret's and the token has not expired (clockTimestamp >= exp is expired)
JwtVerifyOk(token, secret, t) ==
  /\ token.key = secret
  /\ (token.hasExp => t < token.exp)

(***************************************************************************)
(* The Authorization header of a request                                   *)
(***************************************************************************)
NoHeader == [present |-> FALSE]
EmptyToken == [empty |-> TRUE]

\* the header "Bearer <cred>"
Header(cred) == [present |-> TRUE, cred |-> cred]

\* req.header('Authorization').replace('Bearer ', '')
StripBearer(h) == h.cred

\* the credential a request presents: none, an empty one, or a token
CredKind(h) ==
  IF ~h.present THEN "absent"
  ELSE IF StripBearer(h) = EmptyToken THEN "empty"
  ELSE "token"

(***************************************************************************)
(* State                                                                   *)
(***************************************************************************)
VARIABLES
  users,           \* rows of the Users table
  nextUserId,      \* the table's serial primary key
  locations,       \* rows of the Locations table
  nextLocationId,  \* the table's serial primary key
  now,             \* the clock (seconds)
  held,            \* tokens the clients have received and kept
  req,             \* the requests in flight, one per slot
  last,            \* the last response sent
  creator          \* history: the token identity that created each location

vars == <<users, nextUserId, locations, nextLocationId, now, held, req, last, creator>>

Idle == [op |-> "idle"]
None == <<"NULL">>
NoResponse ==
  [op |-> "none", status |-> 0, err |-> "", hdr |-> NoHeader, in |-> None,
   target |-> 0, user |-> 0, out |-> None]

Init ==
  /\ users = {}
  /\ nextUserId = 1
  /\ locations = {}
  /\ nextLocationId = 1
  /\ now = 0
  /\ held = {}
  /\ req = [s \in Slots |-> Idle]
  /\ last = NoResponse
  /\ creator = [l \in LocationIds |-> 0]

InFlight(op) == {s \in Slots : req[s].op = op}

\* res.status(status).send(...): the request of slot s ends
Respond(s, op, status, err, hdr, in, target, user, out) ==
  /\ last' = [op |-> op, status |-> status, err |-> err, hdr |-> hdr, in |-> in,
              target |-> target, user |-> user, out |-> out]
  /\ req' = [req EXCEPT ![s] = Idle]

\* the client keeps a token it has received
Keep(token) ==
  held' = IF Cardinality(held) < MaxTokens THEN held \cup {token} ELSE held

(***************************************************************************)
(* The Users table                                                         *)
(***************************************************************************)
\* (variant: both keys must match)
FindByCpfAndEmail(cpf, email) == {u \in users : u.cpf = cpf /\ u.email = email}

\* User.findOne({ where: { [Op.or]: [{ cpf }, { email }] } })
FindByCpfOrEmail(cpf, email) == {u \in users : u.cpf = cpf \/ u.email = email}

\* User.findOne({ where: { email } })
FindByEmail(email) == {u \in users : u.email = email}

\* User.findByPk(id)
FindByPk(id) == {u \in users : u.id = id}

\* (variant: the table has no unique key)
NoUniqueViolation(cpf, email) == FALSE

\* the unique keys of the Users table (cpf, email): an insert that repeats
\* one is refused by the store
UniqueViolation(cpf, email) ==
  \E u \in users : u.cpf = cpf \/ u.email = email

(***************************************************************************)
(* POST /usuario                                                           *)
(***************************************************************************)
\* the check(...) chain of the route
RegisterValid(b) ==
  /\ b.name # <<>>
  /\ b.gender \in {"M", "F"}
  /\ Len(b.cpf) = CpfLength
  /\ b.address # <<>>
  /\ IsEmail(b.email)
  /\ Len(b.password) >= MinRegisterPassword
  /\ IsISO8601(b.birthdate)

RegisterStart(s, b) ==
  /\ req[s] = Idle
  /\ nextUserId + Cardinality(InFlight("register")) <= MaxUsers
  /\ IF ~RegisterValid(b)
       THEN Respond(s, "register", 400, "ValidationFailed", NoHeader, b, 0, 0, None)
       ELSE /\ req' = [req EXCEPT ![s] =
                        [op |-> "register", pc |-> "findOne", raw |-> b, body |-> b]]
            /\ UNCHANGED last
  /\ UNCHANGED <<users, nextUserId, locations, nextLocationId, now, held, creator>>

RegisterFindOne(s) ==
  /\ req[s].op = "register"
  /\ req[s].pc = "findOne"
  /\ IF FindByCpfOrEmail(req[s].body.cpf, req[s].body.email) # {}
       THEN Respond(s, "register", 400, "Conflict", NoHeader, req[s].raw, 0, 0, None)
       ELSE /\ req' = [req EXCEPT ![s].pc = "create"]
            /\ UNCHANGED last
  /\ UNCHANGED <<users, nextUserId, locations, nextLocationId, now, held, creator>>

\* jwt.sign({ id: user.id }, process.env.JWT_SECRET)
RegisterSign(id, t) == JwtSign(id, JwtSecret, FALSE, t)

\* bcrypt.hash, User.create, jwt.sign, res.status(201)
RegisterCreate(s) ==
  /\ req[s].op = "register"
  /\ req[s].pc = "create"
  /\ LET b == req[s].body
         user == [id |-> nextUserId, name |-> b.name, gender |-> b.gender,
                  cpf |-> b.cpf, address |-> b.address, email |-> b.email,
                  password |-> BcryptHash(b.password), birthdate |-> b.birthdate]
         token == RegisterSign(user.id, now)
     IN IF UniqueViolation(b.cpf, b.email)
          THEN /\ Respond(s, "register", 500, "InternalFailure", NoHeader,
                          req[s].raw, 0, 0, None)
               /\ UNCHANGED <<users, nextUserId, held>>
          ELSE /\ users' = users \cup {user}
               /\ nextUserId' = nextUserId + 1
               /\ Keep(token)
               /\ Respond(s, "register", 201, "", NoHeader, req[s].raw, user.id,
                          user.id, token)
  /\ UNCHANGED <<locations, nextLocationId, now, creator>>

(***************************************************************************)
(* POST /login                                                             *)
(***************************************************************************)
LoginValid(b) ==
  /\ IsEmail(b.email)
  /\ Len(b.password) >= MinLoginPassword

\* req.body after check('email').isEmail().normalizeEmail()
LoginSanitized(b) == [b EXCEPT !.email = NormalizeEmail(b.email)]

LoginStart(s, b) ==
  /\ req[s] = Idle
  /\ IF ~LoginValid(b)
       THEN Respond(s, "login", 400, "ValidationFailed", NoHeader, b, 0, 0, None)
       ELSE /\ req' = [req EXCEPT ![s] =
                        [op |-> "login", pc |-> "findOne", raw |-> b,
                         body |-> LoginSanitized(b)]]
            /\ UNCHANGED last
  /\ UNCHANGED <<users, nextUserId, locations, nextLocationId, now, held, creator>>

LoginFindOne(s) ==
  /\ req[s].op = "login"
  /\ req[s].pc = "findOne"
  /\ LET found == FindByEmail(req[s].body.email)
     IN IF found = {}
          THEN Respond(s, "login", 400, "NotFound", NoHeader, req[s].raw, 0, 0, None)
          ELSE /\ \E u \in found :
                    req' = [req EXCEPT ![s] =
                             [op |-> "login", pc |-> "compare", raw |-> req[s].raw,
                              body |-> req[s].body, usr |-> u]]
               /\ UNCHANGED last
  /\ UNCHANGED <<users, nextUserId, locations, nextLocationId, now, held, creator>>

\* (variant: no expiresIn)
LoginSignNoExpiry(id, t) == JwtSign(id, JwtSecret, FALSE, t)

\* jwt.sign({ id: user.id }, process.env.JWT_SECRET, { expiresIn: '1h' })
LoginSign(id, t) == JwtSign(id, JwtSecret, TRUE, t)

\* bcrypt.compare, jwt.sign, res.send
LoginCompare(s) ==
  /\ req[s].op = "login"
  /\ req[s].pc = "compare"
  /\ LET u == req[s].usr
         token == LoginSign(u.id, now)
     IN IF ~BcryptCompare(req[s].body.password, u.password)
          THEN /\ Respond(s, "login", 400, "InvalidCredentials", NoHeader,
                          req[s].raw, 0, 0, None)
               /\ UNCHANGED held
          ELSE /\ Keep(token)
               /\ Respond(s, "login", 200, "", NoHeader, req[s].raw, u.id, u.id, token)
  /\ UNCHANGED <<users, nextUserId, locations, nextLocationId, now, creator>>

(***************************************************************************)
(* middleware/auth.js                                                      *)
(***************************************************************************)
\* The outcome of the middleware for header h at clock t.  Without an
\* Authorization header req.header() is undefined and .replace throws before
\* the try block: the exception leaves the middleware and Express answers
\* with its default error handler (500).
AuthGate(h, t) ==
  IF ~h.present
    THEN [ok |-> FALSE, status |-> 500, err |-> "TypeError", id |-> 0]
  ELSE IF StripBearer(h) = EmptyToken
    THEN [ok |-> FALSE, status |-> 401, err |-> "Unauthorized", id |-> 0]
  ELSE IF ~JwtVerifyOk(StripBearer(h), JwtSecret, t)
    THEN [ok |-> FALSE, status |-> 400, err |-> "InvalidToken", id |-> 0]
  ELSE [ok |-> TRUE, status |-> 0, err |-> "", id |-> StripBearer(h).id]

\* the request of slot s passes the middleware chain and its handler runs to
\* its first store call
Enter(s, op, pc, hdr, raw, body, target) ==
  /\ req' = [req EXCEPT ![s] =
              [op |-> op, pc |-> pc, hdr |-> hdr, raw |-> raw, body |-> body,
               target |-> target, user |-> AuthGate(hdr, now).id, loc |-> None]]
  /\ UNCHANGED last

\* the middleware answers and the handler does not run
Refuse(s, op, hdr, raw, target) ==
  Respond(s, op, AuthGate(hdr, now).status, AuthGate(hdr, now).err, hdr, raw,
          target, 0, None)

\* a handler's response
Answer(s, status, err, out) ==
  Respond(s, req[s].op, status, err, req[s].hdr, req[s].raw, req[s].target,
          req[s].user, out)

At(s, op, pc) == req[s].op = op /\ req[s].pc = pc

(***************************************************************************)
(* The Locations table                                                     *)
(***************************************************************************)
TextKeys == {"name", "description", "address"}
BodyKeys == TextKeys \cup {"coordinates", "userId"}

\* (variant: the owner is not part of the lookup)
FindById(id, userId) == {l \in locations : l.id = id}

\* Location.findOne({ where: { id: local_id, userId: req.user.id } })
FindOwned(id, userId) == {l \in locations : l.id = id /\ l.userId = userId}

\* Location.findAll({ where: { userId } })
FindAllOf(userId) == {l \in locations : l.userId = userId}

\* the foreign key Locations.userId -> Users.id: a location row must name a
\* stored user, and a user row that a location names cannot be deleted
UserExists(userId) == \E u \in users : u.id = userId

\* (variant: the Locations table has no foreign key)
NeverReferenced(userId) == FALSE

Referenced(userId) == \E l \in locations : l.userId = userId

(***************************************************************************)
(* POST /local                                                             *)
(***************************************************************************)
\* isString() of a field: present in the body (the values are strings)
IsString(b, k) == k \in DOMAIN b

\* check('name').isString().isLength({ min: 1 }), the same for description,
\* check('address').isString(); the validators see the value as received
CreateValid(b) ==
  /\ IsString(b, "name") /\ Len(b.name) >= 1
  /\ IsString(b, "description") /\ Len(b.description) >= 1
  /\ IsString(b, "address")

\* req.body after the .trim().escape() of the three chains
SanitizedBody(b) ==
  [k \in DOMAIN b |-> IF k \in TextKeys THEN Sanitize(b[k]) ELSE b[k]]

CreateStart(s, h, b) ==
  /\ req[s] = Idle
  /\ nextLocationId + Cardinality(InFlight("create")) <= MaxLocations
  /\ IF ~AuthGate(h, now).ok THEN Refuse(s, "create", h, b, 0)
     ELSE IF ~CreateValid(b)
       THEN Respond(s, "create", 400, "ValidationFailed", h, b, 0,
                    AuthGate(h, now).id, None)
     ELSE Enter(s, "create", "create", h, b, SanitizedBody(b), 0)
  /\ UNCHANGED <<users, nextUserId, locations, nextLocationId, now, held, creator>>

\* Location.create({ name, description, address, userId: req.user.id })
CreateInsert(s) ==
  /\ At(s, "create", "create")
  /\ LET b == req[s].body
         location == [id |-> nextLocationId, name |-> b.name,
                      description |-> b.description, address |-> b.address,
                      coordinates |-> None, userId |-> req[s].user]
     IN IF ~UserExists(req[s].user)
          THEN /\ Answer(s, 500, "InternalFailure", None)
               /\ UNCHANGED <<locations, nextLocationId, creator>>
          ELSE /\ locations' = locations \cup {location}
               /\ nextLocationId' = nextLocationId + 1
               /\ creator' = [creator EXCEPT ![location.id] = req[s].user]
               /\ Answer(s, 201, "", location)
  /\ UNCHANGED <<users, nextUserId, now, held>>

(***************************************************************************)
(* GET /local                                                              *)
(***************************************************************************)
ListStart(s, h) ==
  /\ req[s] = Idle
  /\ IF ~AuthGate(h, now).ok THEN Refuse(s, "list", h, None, 0)
     ELSE Enter(s, "list", "findAll", h, None, None, 0)
  /\ UNCHANGED <<users, nextUserId, locations, nextLocationId, now, held, creator>>

ListFindAll(s) ==
  /\ At(s, "list", "findAll")
  /\ Answer(s, 200, "", FindAllOf(req[s].user))
  /\ UNCHANGED <<users, nextUserId, locations, nextLocationId, now, held, creator>>

(***************************************************************************)
(* GET /local/:local_id                                                    *)
(***************************************************************************)
GetStart(s, h, id) ==
  /\ req[s] = Idle
  /\ IF ~AuthGate(h, now).ok THEN Refuse(s, "get", h, None, id)
     ELSE Enter(s, "get", "findOne", h, None, None, id)
  /\ UNCHANGED <<users, nextUserId, locations, nextLocationId, now, held, creator>>

GetFindOne(s) ==
  /\ At(s, "get", "findOne")
  /\ LET found == FindOwned(req[s].target, req[s].user)
     IN IF found = {} THEN Answer(s, 404, "NotFound", None)
        ELSE \E l \in found : Answer(s, 200, "", l)
  /\ UNCHANGED <<users, nextUserId, locations, nextLocationId, now, held, creator>>

(***************************************************************************)
(* PUT /local/:local_id                                                    *)
(***************************************************************************)
\* (variant: the body replaces the record, an absent coordinates is reset)
MergeReplacing(l, b) ==
  [k \in DOMAIN l |->
     IF k \in DOMAIN b THEN b[k]
     ELSE IF k = "coordinates" THEN None
     ELSE l[k]]

\* Object.keys(updates).forEach(update => location[update] = updates[update])
Merge(l, b) == [k \in DOMAIN l |-> IF k \in DOMAIN b THEN b[k] ELSE l[k]]

\* the attributes instance.save() writes: those whose value was changed
Changed(l, b) == {k \in DOMAIN b : b[k] # l[k]}

\* the validation result of the three optional chains is never read: the
\* handler runs whatever they found, on the sanitized body
UpdateStart(s, h, id, b) ==
  /\ req[s] = Idle
  /\ IF ~AuthGate(h, now).ok THEN Refuse(s, "update", h, b, id)
     ELSE Enter(s, "update", "findOne", h, b, SanitizedBody(b), id)
  /\ UNCHANGED <<users, nextUserId, locations, nextLocationId, now, held, creator>>

UpdateFindOne(s) ==
  /\ At(s, "update", "findOne")
  /\ LET found == FindOwned(req[s].target, req[s].user)
     IN IF found = {} THEN Answer(s, 404, "NotFound", None)
        ELSE /\ \E l \in found : req' = [req EXCEPT ![s].pc = "save", ![s].loc = l]
             /\ UNCHANGED last
  /\ UNCHANGED <<users, nextUserId, locations, nextLocationId, now, held, creator>>

\* location.save(): UPDATE of the changed attributes WHERE id; res.send(location)
UpdateSave(s) ==
  /\ At(s, "update", "save")
  /\ LET snap == req[s].loc
         merged == Merge(snap, req[s].body)
         changed == Changed(snap, req[s].body)
         rows == {l \in locations : l.id = snap.id}
     IN IF rows # {} /\ "userId" \in changed /\ ~UserExists(merged.userId)
          THEN /\ Answer(s, 500, "InternalFailure", None)
               /\ UNCHANGED locations
          ELSE /\ locations' =
                    {IF l \in rows
                       THEN [k \in DOMAIN l |-> IF k \in changed THEN merged[k] ELSE l[k]]
                       ELSE l : l \in locations}
               /\ Answer(s, 200, "", merged)
  /\ UNCHANGED <<users, nextUserId, nextLocationId, now, held, creator>>

(***************************************************************************)
(* DELETE /local/:local_id                                                 *)
(***************************************************************************)
DeleteStart(s, h, id) ==
  /\ req[s] = Idle
  /\ IF ~AuthGate(h, now).ok THEN Refuse(s, "delete", h, None, id)
     ELSE Enter(s, "delete", "findOne", h, None, None, id)
  /\ UNCHANGED <<users, nextUserId, locations, nextLocationId, now, held, creator>>

DeleteFindOne(s) ==
  /\ At(s, "delete", "findOne")
  /\ LET found == FindOwned(req[s].target, req[s].user)
     IN IF found = {} THEN Answer(s, 404, "NotFound", None)
        ELSE /\ \E l \in found : req' = [req EXCEPT ![s].pc = "destroy", ![s].loc = l]
             /\ UNCHANGED last
  /\ UNCHANGED <<users, nextUserId, locations, nextLocationId, now, held, creator>>

\* (variant: every location of the caller is removed)
DeleteDestroyOwned(s) ==
  /\ At(s, "delete", "destroy")
  /\ locations' = {l \in locations : l.userId # req[s].user}
  /\ Answer(s, 200, "", None)
  /\ UNCHANGED <<users, nextUserId, nextLocationId, now, held, creator>>

\* location.destroy(): DELETE WHERE id
DeleteDestroy(s) ==
  /\ At(s, "delete", "destroy")
  /\ locations' = {l \in locations : l.id # req[s].loc.id}
  /\ Answer(s, 200, "", None)
  /\ UNCHANGED <<users, nextUserId, nextLocationId, now, held, creator>>

(***************************************************************************)
(* GET /local/:local_id/maps                                               *)
(***************************************************************************)
MapsStart(s, h, id) ==
  /\ req[s] = Idle
  /\ IF ~AuthGate(h, now).ok THEN Refuse(s, "maps", h, None, id)
     ELSE Enter(s, "maps", "findOne", h, None, None, id)
  /\ UNCHANGED <<users, nextUserId, locations, nextLocationId, now, held, creator>>

MapsFindOne(s) ==
  /\ At(s, "maps", "findOne")
  /\ LET found == FindOwned(req[s].target, req[s].user)
     IN IF found = {} THEN Answer(s, 404, "NotFound", None)
        ELSE /\ \E l \in found : req' = [req EXCEPT ![s].pc = "geocode", ![s].loc = l]
             /\ UNCHANGED last
  /\ UNCHANGED <<users, nextUserId, locations, nextLocationId, now, held, creator>>

\* encodeURIComponent: reserved characters are percent-encoded
EncodeChar(c) ==
  CASE c = " " -> "%20"
    [] c = "&lt;" -> "%26lt%3B"
    [] c = "&gt;" -> "%26gt%3B"
    [] c = "&amp;" -> "%26amp%3B"
    [] OTHER -> c

EncodeURIComponent(s) == [i \in DOMAIN s |-> EncodeChar(s[i])]

\* `https://nominatim.openstreetmap.org/search?q=${...}&format=json&limit=1`
NominatimUrl(address) ==
  <<"https://nominatim.openstreetmap.org/search?q=">>
    \o EncodeURIComponent(address) \o <<"&format=json&limit=1">>

Match == [kind |-> "match", lat |-> "-23.587416", lon |-> "-46.657634"]
GeocodeResults == {[kind |-> "failed"], [kind |-> "empty"], Match}

\* what the geocoding service can answer to a url: it knows one address, and
\* any request to it can fail
Nominatim(url) ==
  IF url = NominatimUrl(<<"x">>) THEN {[kind |-> "failed"], Match}
  ELSE {[kind |-> "failed"], [kind |-> "empty"]}

\* (variant: latitude and longitude are swapped)
MapsLinkSwapped(lat, lon) ==
  <<"https://www.google.com/maps/search/?api=1&query=", lon, ",", lat>>

\* `https://www.google.com/maps/search/?api=1&query=${lat},${lon}`
MapsLink(lat, lon) == <<"https://www.google.com/maps/search/?api=1&query=", lat, ",", lon>>

\* axios.get(url) answers r: the request failed, no match, or one match
MapsGeocode(s, r) ==
  /\ At(s, "maps", "geocode")
  /\ r \in Nominatim(NominatimUrl(req[s].loc.address))
  /\ IF r.kind = "failed" THEN Answer(s, 500, "InternalFailure", None)
     ELSE IF r.kind = "empty" THEN Answer(s, 404, "GeocodeNotFound", None)
     ELSE Answer(s, 200, "", MapsLink(r.lat, r.lon))
  /\ UNCHANGED <<users, nextUserId, locations, nextLocationId, now, held, creator>>

(***************************************************************************)
(* DELETE /usuario/:id                                                     *)
(***************************************************************************)
DeleteUserStart(s, h, id) ==
  /\ req[s] = Idle
  /\ IF ~AuthGate(h, now).ok THEN Refuse(s, "deleteUser", h, None, id)
     ELSE Enter(s, "deleteUser", "findByPk", h, None, None, id)
  /\ UNCHANGED <<users, nextUserId, locations, nextLocationId, now, held, creator>>

DeleteUserFindByPk(s) ==
  /\ At(s, "deleteUser", "findByPk")
  /\ IF FindByPk(req[s].target) = {} THEN Answer(s, 404, "NotFound", None)
     ELSE /\ req' = [req EXCEPT ![s].pc = "findAll"]
          /\ UNCHANGED last
  /\ UNCHANGED <<users, nextUserId, locations, nextLocationId, now, held, creator>>

\* (variant: one location is let through)
HasManyLocations(found) == Cardinality(found) > 1

\* locations.length > 0
HasLocations(found) == Cardinality(found) > 0

DeleteUserFindAll(s) ==
  /\ At(s, "deleteUser", "findAll")
  /\ IF HasLocations(FindAllOf(req[s].target)) THEN Answer(s, 400, "Conflict", None)
     ELSE /\ req' = [req EXCEPT ![s].pc = "destroy"]
          /\ UNCHANGED last
  /\ UNCHANGED <<users, nextUserId, locations, nextLocationId, now, held, creator>>

\* user.destroy(): DELETE WHERE id, refused by the foreign key while a
\* location references the user
DeleteUserDestroy(s) ==
  /\ At(s, "deleteUser", "destroy")
  /\ IF Referenced(req[s].target)
       THEN /\ Answer(s, 500, "InternalFailure", None)
            /\ UNCHANGED users
       ELSE /\ users' = {u \in users : u.id # req[s].target}
            /\ Answer(s, 200, "", None)
  /\ UNCHANGED <<nextUserId, locations, nextLocationId, now, held, creator>>

(***************************************************************************)
(* The clock                                                               *)
(***************************************************************************)
Tick ==
  /\ now + TickStep <= MaxTime
  /\ now' = now + TickStep
  /\ UNCHANGED <<users, nextUserId, locations, nextLocationId, held, req, last, creator>>

(***************************************************************************)
(* The requests the clients send                                           *)
(***************************************************************************)
Cpf1 == Rep("1", CpfLength)
Cpf2 == Rep("2", CpfLength)
EmailA == <<"a", "@", "x">>
EmailUpperA == <<"A", "@", "x">>
EmailB == <<"b", "@", "x">>
Password(c, n) == Rep(c, n)

RegisterBody(cpf, email, password) ==
  [name |-> <<"n">>, gender |-> "F", cpf |-> cpf, address |-> <<"r">>,
   email |-> email, password |-> password, birthdate |-> <<1985, 7, 15>>]

LoginBody(email, password) == [email |-> email, password |-> password]

\* a token signed with another key
Forged == [id |-> 1, iat |-> 0, hasExp |-> FALSE, exp |-> 0, key |-> "other"]

\* what a client can put in the Authorization header: a token it holds or
\* one of `others` (nothing, an empty token, a forged token)
BadHeaders == {NoHeader, Header(EmptyToken), Header(Forged)}
Headers(others) == others \cup {Header(t) : t \in held}

TextX == <<"x">>
TextY == <<"y">>
TextRaw == <<" ", "<", "y", " ">>

LocationBody(name, description, address) ==
  [name |-> name, description |-> description, address |-> address]

(***************************************************************************)
(* The routes: every step of a route, for the bodies its clients send      *)
(***************************************************************************)
RegisterRoute(bodies) ==
  \/ \E s \in Slots, b \in bodies : RegisterStart(s, b)
  \/ \E s \in Slots : RegisterFindOne(s)
  \/ \E s \in Slots : RegisterCreate(s)

LoginRoute(bodies) ==
  \/ \E s \in Slots, b \in bodies : LoginStart(s, b)
  \/ \E s \in Slots : LoginFindOne(s)
  \/ \E s \in Slots : LoginCompare(s)

CreateRoute(others, bodies) ==
  \/ \E s \in Slots, h \in Headers(others), b \in bodies : CreateStart(s, h, b)
  \/ \E s \in Slots : CreateInsert(s)

ListRoute(others) ==
  \/ \E s \in Slots, h \in Headers(others) : ListStart(s, h)
  \/ \E s \in Slots : ListFindAll(s)

GetRoute(others) ==
  \/ \E s \in Slots, h \in Headers(others), id \in LocationIds : GetStart(s, h, id)
  \/ \E s \in Slots : GetFindOne(s)

UpdateRoute(others, bodies) ==
  \/ \E s \in Slots, h \in Headers(others), id \in LocationIds, b \in bodies :
       UpdateStart(s, h, id, b)
  \/ \E s \in Slots : UpdateFindOne(s)
  \/ \E s \in Slots : UpdateSave(s)

DeleteRoute(others) ==
  \/ \E s \in Slots, h \in Headers(others), id \in LocationIds : DeleteStart(s, h, id)
  \/ \E s \in Slots : DeleteFindOne(s)
  \/ \E s \in Slots : DeleteDestroy(s)

MapsRoute(others) ==
  \/ \E s \in Slots, h \in Headers(others), id \in LocationIds : MapsStart(s, h, id)
  \/ \E s \in Slots : MapsFindOne(s)
  \/ \E s \in Slots, r \in GeocodeResults : MapsGeocode(s, r)

DeleteUserRoute(others) ==
  \/ \E s \in Slots, h \in Headers(others), id \in UserIds : DeleteUserStart(s, h, id)
  \/ \E s \in Slots : DeleteUserFindByPk(s)
  \/ \E s \in Slots : DeleteUserFindAll(s)
  \/ \E s \in Slots : DeleteUserDestroy(s)

(***************************************************************************)
(* Registration and login                                                  *)
(***************************************************************************)
UsersRegister ==
  {RegisterBody(Cpf1, EmailA, Password("p", MinLoginPassword)),
   RegisterBody(Cpf2, EmailA, Password("p", MinRegisterPassword)),
   RegisterBody(Cpf1, EmailUpperA, Password("p", MinLoginPassword)),
   RegisterBody(Cpf2, EmailUpperA, Password("p", MinLoginPassword))}

UsersLogin ==
  {LoginBody(EmailA, Password("p", MinLoginPassword)),
   LoginBody(EmailA, Password("p", MinRegisterPassword)),
   LoginBody(EmailUpperA, Password("p", MinLoginPassword)),
   LoginBody(EmailA, Password("q", MinLoginPassword))}

NextUsers ==
  \/ RegisterRoute(UsersRegister)
  \/ LoginRoute(UsersLogin)

SpecUsers == Init /\ [][NextUsers]_vars

(***************************************************************************)
(* Tokens and the auth middleware, with the clock running                  *)
(***************************************************************************)
TokensRegister == {RegisterBody(Cpf1, EmailA, Password("p", MinLoginPassword))}
TokensLogin == {LoginBody(EmailA, Password("p", MinLoginPassword))}
TokensCreate == {LocationBody(TextX, TextX, TextX)}

NextTokens ==
  \/ RegisterRoute(TokensRegister)
  \/ LoginRoute(TokensLogin)
  \/ CreateRoute(BadHeaders, TokensCreate)
  \/ ListRoute(BadHeaders)
  \/ Tick

SpecTokens == Init /\ [][NextTokens]_vars

(***************************************************************************)
(* Locations and their owners                                              *)
(***************************************************************************)
TwoUsers ==
  {RegisterBody(Cpf1, EmailA, Password("p", MinLoginPassword)),
   RegisterBody(Cpf2, EmailB, Password("p", MinLoginPassword))}

LocationsCreate == {LocationBody(TextX, TextX, TextX)}

LocationsUpdate ==
  {[name |-> TextY],
   [description |-> TextRaw, coordinates |-> <<"c">>, userId |-> 2]}

NextLocations ==
  \/ RegisterRoute(TwoUsers)
  \/ CreateRoute({}, LocationsCreate)
  \/ GetRoute({})
  \/ UpdateRoute({}, {[name |-> TextY]})
  \/ DeleteRoute({})
  \/ MapsRoute({})

SpecLocations == Init /\ [][NextLocations]_vars

NextUpdate ==
  \/ RegisterRoute(TwoUsers)
  \/ CreateRoute({}, LocationsCreate)
  \/ UpdateRoute({}, LocationsUpdate)

SpecUpdate == Init /\ [][NextUpdate]_vars

(***************************************************************************)
(* Deleting users                                                          *)
(***************************************************************************)
NextDeleteUser ==
  \/ RegisterRoute(TwoUsers)
  \/ CreateRoute({}, LocationsCreate)
  \/ DeleteRoute({})
  \/ DeleteUserRoute({})

SpecDeleteUser == Init /\ [][NextDeleteUser]_vars

(***************************************************************************)
(* Registration inputs: one body per validator of the route                *)
(***************************************************************************)
RegisterOk == RegisterBody(Cpf1, EmailA, Password("p", MinRegisterPassword))

RegisterInputs ==
  {RegisterOk,
   [RegisterOk EXCEPT !.name = <<>>],
   [RegisterOk EXCEPT !.gender = "X"],
   [RegisterOk EXCEPT !.cpf = Rep("1", CpfLength - 1)],
   [RegisterOk EXCEPT !.cpf = Rep("1", CpfLength + 1)],
   [RegisterOk EXCEPT !.address = <<>>],
   [RegisterOk EXCEPT !.email = <<"a", "x">>],
   [RegisterOk EXCEPT !.password = Password("p", MinRegisterPassword - 1)],
   [RegisterOk EXCEPT !.birthdate = <<1985, 13, 1>>],
   [RegisterOk EXCEPT !.birthdate = <<1985, 2, 30>>],
   [RegisterOk EXCEPT !.cpf = Cpf2, !.email = EmailB, !.birthdate = <<1985, 2, 30>>]}

NextRegister == RegisterRoute(RegisterInputs)

SpecRegister == Init /\ [][NextRegister]_vars

(***************************************************************************)
(* Location inputs: bodies with a missing, an empty or a blank field       *)
(***************************************************************************)
CreateInputs ==
  {LocationBody(TextX, TextX, TextX),
   LocationBody(TextX, TextX, <<>>),
   LocationBody(<<>>, TextX, TextX),
   LocationBody(TextX, <<>>, TextX),
   LocationBody(<<" ">>, TextX, TextY),
   [name |-> TextX, address |-> TextX],
   [name |-> TextX, description |-> TextX]}

NextCreate ==
  \/ RegisterRoute(TokensRegister)
  \/ CreateRoute({}, CreateInputs)

SpecCreate == Init /\ [][NextCreate]_vars

(***************************************************************************)
(* The maps link of locations with different addresses                     *)
(***************************************************************************)
MapsCreate == {LocationBody(TextX, TextX, TextX), LocationBody(TextX, TextX, TextY)}

NextMaps ==
  \/ RegisterRoute(TokensRegister)
  \/ CreateRoute({}, MapsCreate)
  \/ MapsRoute({})

SpecMaps == Init /\ [][NextMaps]_vars

(***************************************************************************)
(* Concurrent updates of one user's locations                              *)
(***************************************************************************)
ConcurrentUpdates ==
  {[name |-> TextY],
   [name |-> TextX, description |-> TextY]}

NextConcurrent ==
  \/ RegisterRoute(TokensRegister)
  \/ CreateRoute({}, LocationsCreate)
  \/ UpdateRoute({}, ConcurrentUpdates)

SpecConcurrent == Init /\ [][NextConcurrent]_vars

(***************************************************************************)
(* Deleting locations, and every way of looking one up afterwards          *)
(***************************************************************************)
NextDelete ==
  \/ RegisterRoute(TokensRegister)
  \/ CreateRoute({}, LocationsCreate)
  \/ ListRoute({})
  \/ GetRoute({})
  \/ UpdateRoute({}, {[name |-> TextY]})
  \/ DeleteRoute({})
  \/ MapsRoute({})

SpecDelete == Init /\ [][NextDelete]_vars

(***************************************************************************)
(* Claims                                                                  *)
(***************************************************************************)
SharesKey(b) == \E u \in users : u.cpf = b.cpf \/ u.email = b.email

\* C1: a register call whose duplicate lookup runs while a stored user shares
\* its cpf or its email is answered 400 Conflict, with no token, and the
\* Users table, its serial and the tokens issued are left as they were.
C1_DuplicateRegisterConflict ==
  [][\A s \in Slots :
       (RegisterFindOne(s) /\ SharesKey(req[s].body)) =>
         /\ last'.op = "register" /\ last'.status = 400 /\ last'.err = "Conflict"
         /\ last'.out = None
         /\ req'[s] = Idle
         /\ users' = users /\ nextUserId' = nextUserId /\ held' = held]_vars

\* a register call refused as a duplicate on the email alone
C1_Witness ==
  /\ last.op = "register" /\ last.status = 400 /\ last.err = "Conflict"
  /\ \E u \in users : u.email = last.in.email /\ u.cpf # last.in.cpf

\* C2: in every reachable state no two stored users share a cpf or an email.
C2_UsersUnique ==
  \A u, v \in users : u # v => (u.cpf # v.cpf /\ u.email # v.email)

\* two register calls passed the lookup together and the second insert was
\* refused by the table
C2_Witness ==
  /\ last.op = "register" /\ last.status = 500
  /\ \E u \in users : u.cpf = last.in.cpf \/ u.email = last.in.email

\* the login request of slot s is answered in this step
LoginAnswered(s) ==
  /\ req'[s] = Idle
  /\ \/ req[s].op = "login"
     \/ /\ req[s] = Idle
        /\ \E b \in UsersLogin : LoginStart(s, b)

\* C3: a login with the email and password a stored user registered with is
\* answered 200 with a token that verifies to that user's id.
C3_LoginAfterRegister ==
  [][\A s \in Slots : \A u \in users :
       (/\ LoginAnswered(s)
        /\ last'.in.email = u.email
        /\ BcryptCompare(last'.in.password, u.password)) =>
         /\ last'.status = 200
         /\ JwtVerifyOk(last'.out, JwtSecret, now)
         /\ last'.out.id = u.id]_vars

\* the four lookups of a location by id and owner
LocationLookup(s) ==
  GetFindOne(s) \/ UpdateFindOne(s) \/ DeleteFindOne(s) \/ MapsFindOne(s)

Owned(id, userId) == \E l \in locations : l.id = id /\ l.userId = userId

\* C4: get, update, delete and the maps link of a location whose owner is not
\* the caller's token identity are answered 404 NotFound, the same answer as
\* for an id that does not exist, and every stored record is left unchanged.
C4_OwnershipIsolation ==
  [][\A s \in Slots :
       (LocationLookup(s) /\ ~Owned(req[s].target, req[s].user)) =>
         /\ last'.op = req[s].op /\ last'.status = 404 /\ last'.err = "NotFound"
         /\ last'.out = None
         /\ req'[s] = Idle
         /\ UNCHANGED <<users, nextUserId, locations, nextLocationId, held, creator>>]_vars

\* an update of another user's stored location answered 404
C4_Witness ==
  /\ last.op = "update" /\ last.status = 404 /\ last.err = "NotFound"
  /\ \E l \in locations : l.id = last.target /\ l.userId # last.user
  /\ \E u \in users : u.id = last.user

\* C5: the owner of every stored location is the token identity of the
\* caller that created it.
C5_OwnerFixed == \A l \in locations : l.userId = creator[l.id]

\* C6: a successful save of an update whose location is stored as it was read
\* leaves every field absent from the request body as it was, sets the fields
\* present to the values of the (sanitized) body, leaves the other locations
\* alone, and answers with the record as stored.
C6_UpdateFrame ==
  [][\A s \in Slots :
       (UpdateSave(s) /\ last'.status = 200 /\ req[s].loc \in locations) =>
         /\ \E new \in locations' :
              /\ new.id = req[s].loc.id
              /\ \A k \in DOMAIN new \ DOMAIN req[s].raw : new[k] = req[s].loc[k]
              /\ \A k \in DOMAIN req[s].raw : new[k] = req[s].body[k]
              /\ last'.out = new
         /\ \A l \in locations : l.id # req[s].loc.id => l \in locations'
         /\ Cardinality(locations') = Cardinality(locations)]_vars

\* an update of the name alone, answered with the stored record, whose
\* description, coordinates and owner are those an earlier update had set
C6_Witness ==
  /\ last.op = "update" /\ last.status = 200
  /\ DOMAIN last.in = {"name"}
  /\ last.out \in locations
  /\ last.out.name = TextY
  /\ last.out.description = Sanitize(TextRaw)
  /\ last.out.address = TextX
  /\ last.out.coordinates = <<"c">>

\* C7: deleteUser answers 404 for an id that is not stored, 400 Conflict for a
\* user with one or more locations (the user and the locations stay), and for
\* a stored user with no location goes on to destroy the row and answers 200,
\* after which no user has that id or that email.
C7_DeleteUser ==
  [][\A s \in Slots :
       LET id == req[s].target
           unchanged == UNCHANGED <<users, nextUserId, locations, nextLocationId,
                                    held, creator>>
       IN /\ (DeleteUserFindByPk(s) /\ FindByPk(id) = {}) =>
               /\ last'.status = 404 /\ last'.err = "NotFound"
               /\ req'[s] = Idle /\ unchanged
          /\ (DeleteUserFindByPk(s) /\ FindByPk(id) # {}) =>
               req'[s].pc = "findAll" /\ unchanged
          /\ (DeleteUserFindAll(s) /\ FindAllOf(id) # {}) =>
               /\ last'.status = 400 /\ last'.err = "Conflict"
               /\ req'[s] = Idle /\ unchanged
          /\ (DeleteUserFindAll(s) /\ FindAllOf(id) = {}) =>
               req'[s].pc = "destroy" /\ unchanged
          /\ (DeleteUserDestroy(s) /\ FindAllOf(id) = {}) =>
               /\ last'.status = 200
               /\ req'[s] = Idle
               /\ \A u \in users' : u.id # id
               /\ \A v \in users : v.id = id => \A u \in users' : u.email # v.email
               /\ users' \subseteq users
               /\ locations' = locations]_vars

\* deleteUser refused for a stored user who owns a location
C7_Witness ==
  /\ last.op = "deleteUser" /\ last.status = 400 /\ last.err = "Conflict"
  /\ FindByPk(last.target) # {}
  /\ FindAllOf(last.target) # {}

AuthOps == {"create", "list", "get", "update", "delete", "maps", "deleteUser"}
GateErrors == {"TypeError", "Unauthorized", "InvalidToken"}

\* C8: a request without a credential (no Authorization header, or an empty
\* token) is answered 401 Unauthorized and one whose token does not verify
\* InvalidToken; a refusal changes nothing but the response and starts no
\* handler; a handler runs only with the verified identity attached.
C8_AuthGate ==
  /\ [](last.op \in AuthOps /\ CredKind(last.hdr) \in {"absent", "empty"} =>
          last.status = 401 /\ last.err = "Unauthorized")
  /\ [](last.op \in AuthOps /\ CredKind(last.hdr) = "token"
          /\ last.hdr.cred.key # JwtSecret => last.err = "InvalidToken")
  /\ [][last' # last /\ last'.err \in GateErrors =>
          /\ req' = req
          /\ UNCHANGED <<users, nextUserId, locations, nextLocationId, held, creator>>]_vars
  /\ [](\A s \in Slots : req[s].op \in AuthOps =>
          /\ CredKind(req[s].hdr) = "token"
          /\ req[s].user = req[s].hdr.cred.id)

\* C9: a handler runs only for a token signed with the server secret, with
\* the identity the token was issued for; register and login issue the token
\* for the id of the user they answer with; and a token signed with the
\* server secret is refused only once its expiry has come.
C9_VerifyIssue ==
  /\ \A s \in Slots : req[s].op \in AuthOps =>
       /\ req[s].hdr.cred.key = JwtSecret
       /\ req[s].user = req[s].hdr.cred.id
  /\ last.op \in {"register", "login"} /\ last.status \in {200, 201} =>
       /\ last.out.id = last.user
       /\ last.out.key = JwtSecret
       /\ last.out.iat <= now
  /\ last.op \in AuthOps /\ CredKind(last.hdr) = "token" =>
       /\ last.err \notin {"TypeError", "Unauthorized"}
       /\ last.hdr.cred.key # JwtSecret => last.err = "InvalidToken"
       /\ (last.hdr.cred.key = JwtSecret /\ last.err = "InvalidToken") =>
            (last.hdr.cred.hasExp /\ now >= last.hdr.cred.exp)

\* a handler running for a kept login token, as the user it was issued to
C9_Witness ==
  \E s \in Slots :
    /\ req[s].op = "list"
    /\ req[s].hdr.cred \in held
    /\ req[s].hdr.cred.hasExp
    /\ req[s].user = req[s].hdr.cred.id
    /\ \E u \in users : u.id = req[s].user

IsLeapYear(y) == (y % 4 = 0 /\ y % 100 # 0) \/ y % 400 = 0

DaysInMonth(y, m) ==
  IF m = 2 THEN (IF IsLeapYear(y) THEN 29 ELSE 28)
  ELSE IF m \in {4, 6, 9, 11} THEN 30
  ELSE 31

\* a date of the calendar
ValidDate(d) ==
  /\ Len(d) = 3
  /\ d[2] \in 1..12
  /\ d[3] \in 1..DaysInMonth(d[1], d[2])

\* the field rules of registration
RegisterAcceptable(b) ==
  /\ b.name # <<>>
  /\ b.gender \in {"M", "F"}
  /\ Len(b.cpf) = CpfLength
  /\ b.address # <<>>
  /\ Cardinality({i \in DOMAIN b.email : b.email[i] = "@"}) = 1
  /\ Len(b.password) >= MinRegisterPassword
  /\ ValidDate(b.birthdate)

\* C11: a register call whose name is empty, whose gender is not M or F,
\* whose cpf is not 11 characters long, whose address is empty, whose email is
\* not an email, whose password is shorter than 6 characters or whose
\* birthdate is not a date of the calendar is answered 400 ValidationFailed
\* before any lookup or insert, with no token.
C11_RegisterValidation ==
  [][\A s \in Slots : \A b \in RegisterInputs :
       (RegisterStart(s, b) /\ ~RegisterAcceptable(b)) =>
         /\ last'.op = "register" /\ last'.status = 400
         /\ last'.err = "ValidationFailed"
         /\ last'.out = None
         /\ req'[s] = Idle
         /\ users' = users /\ held' = held]_vars

\* C12: login answers 400 NotFound when no user is stored under the supplied
\* email, 400 InvalidCredentials when the supplied password is not the one
\* behind the stored hash, with no token in either case; a token is issued
\* only for a stored user with the supplied email and password, and is that
\* user's; no step of login changes the store.
C12_LoginCredentials ==
  [][\A s \in Slots :
       /\ (LoginFindOne(s)
            /\ ~\E u \in users : u.email = req[s].raw.email) =>
              /\ last'.op = "login" /\ last'.status = 400 /\ last'.err = "NotFound"
              /\ last'.out = None /\ req'[s] = Idle /\ held' = held
       /\ (LoginCompare(s)
            /\ req[s].usr.password # BcryptHash(req[s].raw.password)) =>
              /\ last'.op = "login" /\ last'.status = 400
              /\ last'.err = "InvalidCredentials"
              /\ last'.out = None /\ req'[s] = Idle /\ held' = held
       /\ (LoginAnswered(s) /\ last'.status = 200) =>
              /\ \E u \in users :
                   /\ u.email = last'.in.email
                   /\ u.password = BcryptHash(last'.in.password)
                   /\ last'.out.id = u.id
              /\ held' \subseteq held \cup {last'.out}
       /\ (LoginAnswered(s) /\ last'.status # 200) =>
              last'.out = None /\ held' = held
       /\ (req'[s] # req[s] /\ (req[s].op = "login" \/ req'[s].op = "login")) =>
              UNCHANGED <<users, nextUserId, locations, nextLocationId>>]_vars

\* name, description and address are all present and non-empty
AllNonEmpty(b) == \A k \in TextKeys : k \in DOMAIN b /\ b[k] # <<>>

\* C13: a create call in which name, description or address is missing or
\* empty is answered 400 and persists no location; a call with all three
\* non-empty persists exactly one new location, owned by the caller's
\* verified token identity.
C13_CreateRequired ==
  [][\A s \in Slots :
       /\ \A b \in CreateInputs : \A t \in held :
            (CreateStart(s, Header(t), b) /\ AuthGate(Header(t), now).ok
             /\ ~AllNonEmpty(b)) =>
              /\ last'.op = "create" /\ last'.status = 400
              /\ req'[s] = Idle
              /\ locations' = locations
       /\ CreateInsert(s) =>
            /\ AllNonEmpty(req[s].raw)
            /\ \E l \in locations' \ locations :
                 /\ locations' = locations \cup {l}
                 /\ l.userId = req[s].hdr.cred.id
                 /\ last'.status = 201 /\ last'.out = l]_vars

\* C14: the maps link of an owned location is derived from what the
\* geocoding service answers for the stored address: no match is answered
\* 404 GeocodeNotFound, a match 200 with the link built from exactly its
\* latitude and longitude, a failed call 500, and in every outcome the
\* stored locations are left as they were.
C14_MapLink ==
  [][\A s \in Slots : \A r \in GeocodeResults :
       MapsGeocode(s, r) =>
         /\ \E l \in locations :
              /\ l.id = req[s].target /\ l.userId = req[s].user
              /\ r \in Nominatim(NominatimUrl(l.address))
         /\ r.kind = "empty" =>
              last'.status = 404 /\ last'.err = "GeocodeNotFound"
         /\ r.kind = "match" =>
              /\ last'.status = 200
              /\ last'.out =
                   <<"https://www.google.com/maps/search/?api=1&query=",
                     r.lat, ",", r.lon>>
         /\ r.kind = "failed" => last'.status = 500
         /\ last'.op = "maps" /\ req'[s] = Idle
         /\ UNCHANGED <<users, locations, nextLocationId, creator>>]_vars

\* a link answered for a stored location, whose coordinates are still unset
C14_Witness ==
  /\ last.op = "maps" /\ last.status = 200
  /\ last.out[2] = Match.lat /\ last.out[4] = Match.lon
  /\ \E l \in locations :
       l.id = last.target /\ l.address = TextX /\ l.coordinates = None
  /\ \E l \in locations : l.address = TextY

C16_LastWriteWins ==
  [][\A s \in Slots : \A l \in locations :
       (UpdateSave(s) /\ l.id = req[s].loc.id /\ l # req[s].loc) =>
         /\ last'.status = 200
         /\ \E new \in locations' :
              /\ new.id = l.id
              /\ \A k \in DOMAIN req[s].body : new[k] = req[s].body[k]
              /\ \A k \in DOMAIN new \ DOMAIN req[s].body : new[k] = l[k]]_vars

\* the location with this id was created and is no longer stored
Deleted(id) ==
  /\ creator[id] # 0
  /\ ~\E l \in locations : l.id = id

\* C17: a successful delete removes exactly the record it looked up and
\* leaves every other location and every user as they were; from then on the
\* id stays unknown: get, update, delete and the maps link look it up in vain
\* and answer 404 NotFound, and no list contains it.
C17_DeleteFrame ==
  [][\A s \in Slots :
       /\ DeleteDestroy(s) =>
            /\ last'.op = "delete" /\ last'.status = 200
            /\ locations' = {l \in locations : l.id # req[s].target}
            /\ ~\E l \in locations' : l.id = req[s].target
            /\ UNCHANGED <<users, nextUserId>>
       /\ \A id \in LocationIds : Deleted(id) => Deleted(id)'
       /\ (LocationLookup(s) /\ Deleted(req[s].target)) =>
            /\ last'.op = req[s].op
            /\ last'.status = 404 /\ last'.err = "NotFound"
            /\ req'[s] = Idle
       /\ ListFindAll(s) =>
            /\ last'.op = "list" /\ last'.status = 200
            /\ \A l \in last'.out : ~Deleted(l.id)
            /\ last'.out = {l \in locations : l.userId = req[s].hdr.cred.id}]_vars

\* a get of a deleted location answered 404 while the owner's other location
\* is still stored
C17_Witness ==
  /\ last.op = "get" /\ last.status = 404
  /\ Deleted(last.target)
  /\ creator[last.target] = last.user
  /\ \E l \in locations : l.userId = last.user
  /\ \E u \in users : u.id = last.user

\* the status codes each route documents, with those of the auth middleware
\* for the routes behind it
Documented(op) ==
  CASE op = "register" -> {201, 400, 500}
    [] op = "login" -> {200, 400, 500}
    [] op = "create" -> {201, 400, 401, 500}
    [] op = "list" -> {200, 400, 401, 500}
    [] op = "get" -> {200, 400, 401, 404}
    [] op = "update" -> {200, 400, 401, 404, 500}
    [] op = "delete" -> {200, 400, 401, 404, 500}
    [] op = "maps" -> {200, 400, 401, 404, 500}
    [] op = "deleteUser" -> {200, 400, 401, 404, 500}

\* C18: every response is sent by the handler or by the auth middleware, with
\* a status the route documents: no request ends with an exception that left
\* them (answered by the framework's default error page, not a JSON body).
C18_FailuresCaught ==
  last.op # "none" =>
    /\ last.err # "TypeError"
    /\ last.status \in Documented(last.op)

====
